---- MODULE Spec2Model ----
(***************************************************************************)
(* A model of package config (src/pkg.go): documents are Go maps          *)
(* (map[string]any), which are references to mutable map objects, so the  *)
(* model keeps a heap of map objects and interface values that point      *)
(* into it.                                                                *)
(*                                                                         *)
(* A string is a sequence of one-character strings.                        *)
(* An interface value is a pair <<dynamic type, payload>>:                 *)
(*   <<"nil",0>>  <<"bool",b>>  <<"int",n>>  <<"float64",n>>               *)
(*   <<"string",n>>  <<"slice",n>>                                         *)
(*   <<"map",addr>>     a map[string]any, addr its map object in the heap  *)
(*   <<"Config",addr>>  a Config (a defined type, distinct from            *)
(*                      map[string]any in type switches and assertions)    *)
(***************************************************************************)
EXTENDS Integers, Sequences, FiniteSets, TLC

VARIABLES heap, call, nops, done

vars == <<heap, call, nops, done>>

\* The number of operations the caller performs in one run.
MaxOps == 3

\* ------------------------------------------------------------------------
\* Values and map objects
\* ------------------------------------------------------------------------

\* The zero interface value (JSON null).
Nil == <<"nil", 0>>

\* map[string]any{} : a map object with no keys.
EmptyMap == <<>>

\* v.(map[string]any) succeeds: the dynamic type is exactly map[string]any.
IsMap(v) == v[1] = "map"

\* A Document of the spec: a nested mapping, whatever its Go type.
IsDocument(v) == v[1] \in {"map", "Config"}

\* _, ok := m[k]
HasKey(m, k) == k \in DOMAIN m

\* A faulty assignment that keeps the old value of an existing key.
MapAssignKeepOld(m, k, v) == [x \in (DOMAIN m) \cup {k} |-> IF x \in DOMAIN m THEN m[x] ELSE v]

\* A faulty assignment that replaces the map by one holding only k.
MapAssignAlone(m, k, v) == [x \in {k} |-> v]

\* m[k] = v
MapAssign(m, k, v) == [x \in (DOMAIN m) \cup {k} |-> IF x = k THEN v ELSE m[x]]

\* The keys used by the callers of the path operations.
KA == <<"a">>

KB == <<"b">>

KeyNames == {KA, KB}

\* The paths the callers pass: one or two keys.
Paths == {<<k>> : k \in KeyNames} \cup {<<k1, k2>> : k1 \in KeyNames, k2 \in KeyNames}

\* ------------------------------------------------------------------------
\* Get, HasKeyNested, Set
\* ------------------------------------------------------------------------

RECURSIVE GetLoop(_, _, _, _)
\* The loop of Get from iteration i with nestedMap the current map object.
GetLoop(h, nestedMap, keys, i) ==
  IF ~HasKey(h[nestedMap], keys[i])
  THEN [value |-> Nil, ok |-> FALSE, status |-> "ok"]
  ELSE LET value == h[nestedMap][keys[i]] IN
       IF i < Len(keys)
       THEN IF IsMap(value)
            THEN GetLoop(h, value[2], keys, i + 1)
            ELSE [value |-> Nil, ok |-> FALSE, status |-> "panic"]
       ELSE [value |-> value, ok |-> TRUE, status |-> "ok"]

\* Get(c, keys...) : status "panic" is the failed type assertion.
Get(h, c, keys) ==
  IF Len(keys) = 0
  THEN [value |-> Nil, ok |-> FALSE, status |-> "ok"]
  ELSE GetLoop(h, c, keys, 1)

RECURSIVE HasKeyNestedLoop(_, _, _, _)
\* The loop of HasKeyNested from iteration i.
HasKeyNestedLoop(h, nestedMap, keys, i) ==
  IF ~HasKey(h[nestedMap], keys[i])
  THEN [ok |-> FALSE, status |-> "ok"]
  ELSE LET value == h[nestedMap][keys[i]] IN
       IF i < Len(keys)
       THEN IF IsMap(value)
            THEN HasKeyNestedLoop(h, value[2], keys, i + 1)
            ELSE [ok |-> FALSE, status |-> "panic"]
       ELSE [ok |-> TRUE, status |-> "ok"]

\* HasKeyNested(c, keys...)
HasKeyNested(h, c, keys) ==
  IF Len(keys) = 0
  THEN [ok |-> TRUE, status |-> "ok"]
  ELSE HasKeyNestedLoop(h, c, keys, 1)

\* nestedMap[key] = map[string]any{} when key is missing, in iteration i < len(keys)-1.
SetMissing(h, nestedMap, key) ==
  IF HasKey(h[nestedMap], key)
  THEN h
  ELSE LET h1 == Append(h, EmptyMap) IN
       [h1 EXCEPT ![nestedMap] = MapAssign(@, key, <<"map", Len(h1)>>)]

RECURSIVE SetLoop(_, _, _, _, _)
\* The loop of Set from iteration i.
SetLoop(h, nestedMap, value, keys, i) ==
  IF i < Len(keys)
  THEN LET h1 == SetMissing(h, nestedMap, keys[i]) IN
       IF HasKey(h1[nestedMap], keys[i]) /\ IsMap(h1[nestedMap][keys[i]])
       THEN SetLoop(h1, h1[nestedMap][keys[i]][2], value, keys, i + 1)
       ELSE [heap |-> h1, status |-> "panic"]
  ELSE [heap |-> [h EXCEPT ![nestedMap] = MapAssign(@, keys[i], value)], status |-> "ok"]

\* Set(c, value, keys...) : status "panic" is the failed type assertion.
Set(h, c, value, keys) ==
  IF Len(keys) = 0
  THEN [heap |-> h, status |-> "ok"]
  ELSE SetLoop(h, c, value, keys, 1)

\* ------------------------------------------------------------------------
\* Update
\* ------------------------------------------------------------------------

\* A faulty type switch that stores every source value, maps included.
UpdateCaseAlwaysAssign(h, source, target, k) == "assign"

\* What the body of Update's loop does for key k of source: "recurse" into
\* both maps, "panic" in target[k].(map[string]any), or "assign" target[k] = v.
UpdateCase(h, source, target, k) ==
  IF IsMap(h[source][k]) /\ HasKey(h[target], k)
  THEN IF IsMap(h[target][k]) THEN "recurse" ELSE "panic"
  ELSE "assign"

RECURSIVE UpdateRange(_, _, _, _, _)
\* The outcomes of Update's range loop over the map object source, whose
\* keys were start when the loop began and of which visited have been
\* produced: the keys are produced in any order, and a key added to the map
\* during the loop may be produced or skipped.
UpdateRange(h, source, target, start, visited) ==
  LET todo == (DOMAIN h[source]) \ visited IN
  (IF todo \cap start = {} THEN {[heap |-> h, status |-> "ok"]} ELSE {})
    \cup UNION {
      CASE UpdateCase(h, source, target, k) = "recurse" ->
             UNION {IF r.status = "ok"
                    THEN UpdateRange(r.heap, source, target, start, visited \cup {k})
                    ELSE {r} :
                    r \in UpdateRange(h, h[source][k][2], h[target][k][2],
                                      DOMAIN h[h[source][k][2]], {})}
        [] UpdateCase(h, source, target, k) = "panic" ->
             {[heap |-> h, status |-> "panic"]}
        [] OTHER ->
             UpdateRange([h EXCEPT ![target] = MapAssign(@, k, h[source][k])],
                         source, target, start, visited \cup {k}) :
      k \in todo}

\* Update(source, target): every outcome the iteration order allows.
Update(h, source, target) == UpdateRange(h, source, target, DOMAIN h[source], {})

\* ------------------------------------------------------------------------
\* Documents built literally by the caller
\* ------------------------------------------------------------------------

\* A literal entry is <<type, payload, body>>: body holds the entries of a
\* nested map literal (scalars only) and is empty for a scalar.
LitNumber == <<"float64", 1>>

LitScalars == {LitNumber, Nil, <<"slice", 1>>}

LitBodies == {EmptyMap, KA :> LitNumber}

LitEntries ==
  {<<s[1], s[2], EmptyMap>> : s \in LitScalars}
    \cup {<<t, 0, b>> : t \in {"map", "Config"}, b \in LitBodies}

\* The document literals: any subset of the keys, each holding a literal entry.
Literals == UNION {[ks -> LitEntries] : ks \in SUBSET KeyNames}

RECURSIVE Load(_, _, _)
\* The heap after the entries of literal lit are stored in the map object at
\* addr, each nested map literal becoming a map object of its own.
Load(h, addr, lit) ==
  IF DOMAIN lit = {}
  THEN h
  ELSE LET k == CHOOSE x \in DOMAIN lit : TRUE
           e == lit[k]
           rest == [x \in (DOMAIN lit) \ {k} |-> lit[x]]
       IN IF e[1] \in {"map", "Config"}
          THEN LET h1 == Append(h, e[3]) IN
               Load([h1 EXCEPT ![addr] = MapAssign(@, k, <<e[1], Len(h1)>>)], addr, rest)
          ELSE Load([h EXCEPT ![addr] = MapAssign(@, k, <<e[1], e[2]>>)], addr, rest)

\* ------------------------------------------------------------------------
\* The vocabulary of the claims: paths and trees of Documents
\* ------------------------------------------------------------------------

RECURSIVE Resolve(_, _, _, _)
\* The value a path addresses by descending through nested Documents
\* (whatever their Go type), from its i-th key on.
Resolve(h, c, keys, i) ==
  IF ~HasKey(h[c], keys[i])
  THEN [found |-> FALSE, value |-> Nil]
  ELSE IF i = Len(keys)
       THEN [found |-> TRUE, value |-> h[c][keys[i]]]
       ELSE IF IsDocument(h[c][keys[i]])
            THEN Resolve(h, h[c][keys[i]][2], keys, i + 1)
            ELSE [found |-> FALSE, value |-> Nil]

\* The proper non-empty prefixes of a path.
Prefixes(keys) == {SubSeq(keys, 1, i) : i \in 1..(Len(keys) - 1)}

\* Some intermediate key of the path exists and holds a non-Document value.
NonDocumentIntermediate(h, c, keys) ==
  \E q \in Prefixes(keys) :
    Resolve(h, c, q, 1).found /\ ~IsDocument(Resolve(h, c, q, 1).value)

\* Every intermediate key of the path that exists holds a map[string]any.
IntermediatesAreMaps(h, c, keys) ==
  \A q \in Prefixes(keys) :
    Resolve(h, c, q, 1).found => IsMap(Resolve(h, c, q, 1).value)

RECURSIVE SameTree(_, _, _, _)
\* The map object at a1 in h1 and the one at a2 in h2 hold equal trees.
SameTree(h1, a1, h2, a2) ==
  /\ DOMAIN h1[a1] = DOMAIN h2[a2]
  /\ \A k \in DOMAIN h1[a1] :
       LET v1 == h1[a1][k]
           v2 == h2[a2][k]
       IN /\ v1[1] = v2[1]
          /\ IF IsDocument(v1) THEN SameTree(h1, v1[2], h2, v2[2]) ELSE v1 = v2

\* The values v1 (in heap h1) and v2 (in heap h2) are equal, nested
\* Documents compared as trees.
SameValue(h1, v1, h2, v2) ==
  /\ v1[1] = v2[1]
  /\ IF IsDocument(v1) THEN SameTree(h1, v1[2], h2, v2[2]) ELSE v1 = v2

\* The keys of the map object at a that hold Documents.
DocumentKeys(h, a) == {k \in DOMAIN h[a] : IsDocument(h[a][k])}

RECURSIVE Reach(_, _)
\* The map objects of the Document at a: itself and those nested in it.
Reach(h, a) == {a} \cup UNION {Reach(h, h[a][k][2]) : k \in DocumentKeys(h, a)}

\* The Document at a is a tree: no map object is held at two places in it.
IsTree(h, a) ==
  /\ \A k \in DocumentKeys(h, a) : a \notin Reach(h, h[a][k][2])
  /\ \A k1, k2 \in DocumentKeys(h, a) :
       k1 # k2 => Reach(h, h[a][k1][2]) \cap Reach(h, h[a][k2][2]) = {}
  /\ \A b \in Reach(h, a) : \A k1, k2 \in DocumentKeys(h, b) :
       k1 # k2 => Reach(h, h[b][k1][2]) \cap Reach(h, h[b][k2][2]) = {}

\* ------------------------------------------------------------------------
\* The path accessor: one document d, read and written by path
\* ------------------------------------------------------------------------

\* The document the path operations are called on.
D == 1

NoCall == [op |-> "none", root |-> 0, keys |-> <<>>, value |-> Nil, ok |-> FALSE, status |-> "ok"]

\* The values the caller sets: a number, or a new empty map.
SetScalars == {<<"float64", 2>>}

InitPath ==
  /\ \E lit \in Literals : heap = Load(<<EmptyMap>>, D, lit)
  /\ call = NoCall
  /\ nops = 0
  /\ done = {}

\* Set(d, value, keys...) with a scalar value.
DoSetScalar(c) ==
  /\ nops < MaxOps
  /\ \E p \in Paths, v \in SetScalars :
       LET r == Set(heap, c, v, p) IN
       /\ heap' = r.heap
       /\ call' = [op |-> "Set", root |-> c, keys |-> p, value |-> v, ok |-> TRUE, status |-> r.status]
  /\ nops' = nops + 1
  /\ UNCHANGED done

\* Set(d, map[string]any{}, keys...) : the value is a new empty map.
DoSetMap(c) ==
  /\ nops < MaxOps
  /\ \E p \in Paths :
       LET h1 == Append(heap, EmptyMap)
           v == <<"map", Len(h1)>>
           r == Set(h1, c, v, p)
       IN /\ heap' = r.heap
          /\ call' = [op |-> "Set", root |-> c, keys |-> p, value |-> v, ok |-> TRUE, status |-> r.status]
  /\ nops' = nops + 1
  /\ UNCHANGED done

\* Get(d, keys...)
DoGet(c) ==
  /\ nops < MaxOps
  /\ \E p \in Paths :
       LET r == Get(heap, c, p) IN
       call' = [op |-> "Get", root |-> c, keys |-> p, value |-> r.value, ok |-> r.ok, status |-> r.status]
  /\ nops' = nops + 1
  /\ UNCHANGED <<heap, done>>

\* HasKeyNested(d, keys...)
DoHasKeyNested(c) ==
  /\ nops < MaxOps
  /\ \E p \in Paths :
       LET r == HasKeyNested(heap, c, p) IN
       call' = [op |-> "HasKeyNested", root |-> c, keys |-> p, value |-> Nil, ok |-> r.ok, status |-> r.status]
  /\ nops' = nops + 1
  /\ UNCHANGED <<heap, done>>

\* The paths of three keys the callers pass to Set.
DeepPaths == {<<KA, KB, KA>>, <<KB, KA, KB>>}

\* Set(d, value, k1, k2, k3) with a scalar value.
DoSetDeep(c) ==
  /\ nops < MaxOps
  /\ \E p \in DeepPaths, v \in SetScalars :
       LET r == Set(heap, c, v, p) IN
       /\ heap' = r.heap
       /\ call' = [op |-> "Set", root |-> c, keys |-> p, value |-> v, ok |-> TRUE, status |-> r.status]
  /\ nops' = nops + 1
  /\ UNCHANGED done

NextPath == DoSetScalar(D) \/ DoSetMap(D) \/ DoSetDeep(D) \/ DoGet(D) \/ DoHasKeyNested(D)

SpecPath == InitPath /\ [][NextPath]_vars

\* ------------------------------------------------------------------------
\* Claims on the path accessor
\* ------------------------------------------------------------------------

\* C1 as stated: after every call Set(d, p, v), Get(d, p) returns (v, true).
C1_GetAfterEverySet ==
  call.op = "Set" =>
    Get(heap, call.root, call.keys) = [value |-> call.value, ok |-> TRUE, status |-> "ok"]

\* C1 amended: when every existing intermediate key of p holds a
\* map[string]any, Set(d, p, v) completes and Get(d, p) then returns (v, true).
C1_GetAfterSet ==
  [][(call'.op = "Set" /\ IntermediatesAreMaps(heap, call'.root, call'.keys))
       => /\ call'.status = "ok"
          /\ Get(heap', call'.root, call'.keys)
               = [value |-> call'.value, ok |-> TRUE, status |-> "ok"]]_vars

\* A Set on a path of two keys has completed and Get finds its value.
C1_Witness ==
  /\ call.op = "Set"
  /\ call.status = "ok"
  /\ Len(call.keys) = 2
  /\ Get(heap, call.root, call.keys).ok

\* C6: Get and HasKeyNested on a path with a non-Document intermediate value
\* fail with a TypeMismatch error (no crash, no silent result).
C6_TypeMismatchOnRead ==
  (call.op \in {"Get", "HasKeyNested"} /\ NonDocumentIntermediate(heap, call.root, call.keys))
    => call.status = "TypeMismatch"

\* C7: Set on a path with a non-Document intermediate value fails with
\* TypeMismatch and leaves the document unchanged.
C7_TypeMismatchOnSet ==
  [][(call'.op = "Set" /\ NonDocumentIntermediate(heap, call'.root, call'.keys))
       => /\ call'.status = "TypeMismatch"
          /\ SameTree(heap', call'.root, heap, call'.root)]_vars

\* ------------------------------------------------------------------------
\* The merge engine: Update(source, target), then Set on the target
\* ------------------------------------------------------------------------

\* The documents Update is called on.
Source == 1

Target == 2

\* The entries of the source literals hold their own number.
SrcNumber == <<"float64", 9>>

SrcEntries ==
  {<<SrcNumber[1], SrcNumber[2], EmptyMap>>}
    \cup {<<t, 0, b>> : t \in {"map", "Config"}, b \in {EmptyMap, KA :> SrcNumber}}

SrcLiterals == UNION {[ks -> SrcEntries] : ks \in SUBSET KeyNames}

TgtEntries ==
  {<<s[1], s[2], EmptyMap>> : s \in LitScalars}
    \cup {<<t, 0, (KA :> LitNumber) @@ (KB :> LitNumber)>> : t \in {"map", "Config"}}

TgtLiterals == UNION {[ks -> TgtEntries] : ks \in SUBSET KeyNames}

InitMerge ==
  /\ \E s \in SrcLiterals, t \in TgtLiterals :
       heap = Load(Load(<<EmptyMap, EmptyMap>>, Source, s), Target, t)
  /\ call = NoCall
  /\ nops = 0
  /\ done = {}

\* Update(source, target)
DoUpdate ==
  /\ nops < MaxOps
  /\ \E r \in Update(heap, Source, Target) :
       /\ heap' = r.heap
       /\ call' = [op |-> "Update", root |-> Target, keys |-> <<>>, value |-> Nil, ok |-> TRUE, status |-> r.status]
  /\ nops' = nops + 1
  /\ done' = done \cup {"Update"}

NextMerge == DoUpdate \/ DoSetScalar(Target)

SpecMerge == InitMerge /\ [][NextMerge]_vars

\* ------------------------------------------------------------------------
\* Claims on Update
\* ------------------------------------------------------------------------

\* C2: Update never mutates its source, and no Set or Update applied to the
\* target after an Update changes the source (nothing is shared).
C2_SourceNeverMutated ==
  [][("Update" \in done \/ call'.op = "Update")
       => SameTree(heap', Source, heap, Source)]_vars

\* C3: merging the source into the target a second time leaves the target
\* exactly as it was after the first merge.
C3_UpdateIdempotent ==
  [][(call.op = "Update" /\ call'.op = "Update")
       => SameTree(heap', Target, heap, Target)]_vars

\* The keys where the source holds a Document and the target holds a value
\* that is not a Document.
ClashKeys(h) ==
  {k \in (DOMAIN h[Source]) \cap (DOMAIN h[Target]) :
     IsDocument(h[Source][k]) /\ ~IsDocument(h[Target][k])}

\* C4: on a type clash (source[k] a Document, target[k] a scalar, Null or
\* Array) Update completes and target[k] becomes equal to source[k].
C4_TypeClashOverwrites ==
  [][call'.op = "Update"
       => \A k \in ClashKeys(heap) :
            /\ call'.status = "ok"
            /\ HasKey(heap'[Target], k)
            /\ SameValue(heap', heap'[Target][k], heap, heap[Source][k])]_vars

\* The path resolves in the document at c, as Get reports it.
Resolves(h, c, p) == Get(h, c, p).status = "ok" /\ Get(h, c, p).ok

\* The path leaves the source at a missing key: some key of p is absent from
\* the source map reached through the keys before it, all of which hold
\* map[string]any in the source.
SourceLacks(h, p) ==
  \E i \in 1..Len(p) :
    LET q == SubSeq(p, 1, i - 1) IN
    IF i = 1
    THEN ~HasKey(h[Source], p[1])
    ELSE /\ Resolves(h, Source, q)
         /\ IsMap(Get(h, Source, q).value)
         /\ ~HasKey(h[Get(h, Source, q).value[2]], p[i])

\* Get(target, p) returns the same value in heap h2 as in heap h1.
TargetKeeps(h1, h2, p) ==
  /\ Resolves(h2, Target, p)
  /\ SameValue(h2, Get(h2, Target, p).value, h1, Get(h1, Target, p).value)

\* C5 as stated: every path that resolves in the target and not in the
\* source yields the same value after Update as before.
C5_TargetOnlyUntouched ==
  [][call'.op = "Update"
       => \A p \in Paths :
            (Resolves(heap, Target, p) /\ ~Resolves(heap, Source, p))
              => TargetKeeps(heap, heap', p)]_vars

\* C5 amended: in a target that is a tree, every path that resolves in the
\* target and leaves the source at a missing key below map[string]any values
\* yields the same value after Update as before.
C5_TargetOnlyKept ==
  [][(call'.op = "Update" /\ IsTree(heap, Target))
       => \A p \in Paths :
            (Resolves(heap, Target, p) /\ SourceLacks(heap, p))
              => TargetKeeps(heap, heap', p)]_vars

\* A deep merge has completed: the target keeps its own a.b while a.a holds
\* the number of the source.
C5_Witness ==
  /\ call.op = "Update"
  /\ call.status = "ok"
  /\ Resolves(heap, Target, <<KA, KB>>)
  /\ Get(heap, Target, <<KA, KB>>).value = LitNumber
  /\ Get(heap, Target, <<KA, KA>>).value = SrcNumber
  /\ ~Resolves(heap, Source, <<KA, KB>>)

\* ------------------------------------------------------------------------
\* UniqueKeyMatchOf
\* ------------------------------------------------------------------------

\* unicode.ToLower on the letters the callers use.
ToLower(r) == CASE r = "K" -> "k" [] r = "E" -> "e" [] OTHER -> r

\* strings.Map(filter, s): the runes of ignore are dropped (filter returns
\* -1), the others are lowercased.
Filter(ignore, s) ==
  LET Kept(r) == r \notin ignore
      t == SelectSeq(s, Kept)
  IN [i \in 1..Len(t) |-> ToLower(t[i])]

\* strings.HasPrefix(s, prefix)
HasPrefix(s, prefix) == Len(prefix) <= Len(s) /\ SubSeq(s, 1, Len(prefix)) = prefix

\* The orders in which a range loop may produce the keys of a map.
Orders(keys) ==
  {f \in [1..Cardinality(keys) -> keys] : \A i, j \in DOMAIN f : i # j => f[i] # f[j]}

RECURSIVE MatchRange(_, _, _, _, _)
\* The range loop of UniqueKeyMatchOf from the i-th key produced, k being
\* the filtered shortcut.
MatchRange(order, i, k, ignore, match) ==
  IF i > Len(order)
  THEN match
  ELSE IF HasPrefix(Filter(ignore, order[i]), k)
       THEN IF match # <<>>
            THEN <<>>
            ELSE MatchRange(order, i + 1, k, ignore, order[i])
       ELSE MatchRange(order, i + 1, k, ignore, match)

\* c.UniqueKeyMatchOf(k, ignore) when the keys of c are produced in order.
UniqueKeyMatchOf(order, k, ignore) == MatchRange(order, 1, Filter(ignore, k), ignore, <<>>)

\* The top-level keys and the shortcuts of the callers.
MatchKeys == {<<>>, <<"k">>, <<"K", "_">>, <<"_", "k", "E">>, <<"u">>}

Shortcuts == {<<>>, <<"k">>, <<"K", "e">>, <<"_">>, <<"u", "k">>}

IgnoreSets == {{}, {"_"}}

InitKeys ==
  /\ \E ks \in SUBSET MatchKeys : heap = <<[key \in ks |-> LitNumber]>>
  /\ call = NoCall
  /\ nops = 0
  /\ done = {}

\* c.UniqueKeyMatchOf(k, ignore)
DoUniqueKeyMatchOf ==
  /\ nops < MaxOps
  /\ \E k \in Shortcuts, ignore \in IgnoreSets, order \in Orders(DOMAIN heap[D]) :
       call' = [op |-> "UniqueKeyMatchOf", root |-> D, keys |-> <<>>, value |-> Nil,
                ok |-> TRUE, status |-> "ok", k |-> k, ignore |-> ignore,
                match |-> UniqueKeyMatchOf(order, k, ignore)]
  /\ nops' = nops + 1
  /\ UNCHANGED <<heap, done>>

NextKeys == DoUniqueKeyMatchOf

SpecKeys == InitKeys /\ [][NextKeys]_vars

\* The top-level keys of c whose filtered form has the filtered k as a prefix.
Matching(h, c, k, ignore) ==
  {key \in DOMAIN h[c] : HasPrefix(Filter(ignore, key), Filter(ignore, k))}

\* C8: UniqueKeyMatchOf returns the only matching key verbatim, and the empty
\* string when no key or more than one key matches, whatever the order in
\* which the keys are visited.
C8_UniqueMatch ==
  call.op = "UniqueKeyMatchOf" =>
    IF Cardinality(Matching(heap, call.root, call.k, call.ignore)) = 1
    THEN call.match \in Matching(heap, call.root, call.k, call.ignore)
    ELSE call.match = <<>>

\* ------------------------------------------------------------------------
\* Translation.Apply
\* ------------------------------------------------------------------------

\* The pairs one Translation holds at most.
MaxPairs == 2

\* unicode.IsSpace on the characters the callers use.
IsSpace(r) == r \in {" ", "\t"}

RECURSIVE TrimSpace(_)
\* strings.TrimSpace(s)
TrimSpace(s) ==
  IF s # <<>> /\ IsSpace(s[1])
  THEN TrimSpace(Tail(s))
  ELSE IF s # <<>> /\ IsSpace(s[Len(s)])
       THEN TrimSpace(SubSeq(s, 1, Len(s) - 1))
       ELSE s

RECURSIVE Split(_, _)
\* strings.Split(s, sep) for a separator of one character.
Split(s, sep) ==
  IF \E i \in 1..Len(s) : s[i] = sep
  THEN LET i == CHOOSE x \in 1..Len(s) : s[x] = sep /\ \A y \in 1..(x - 1) : s[y] # sep
       IN <<SubSeq(s, 1, i - 1)>> \o Split(SubSeq(s, i + 1, Len(s)), sep)
  ELSE <<s>>

\* The keys of a path string: split by the separator, each segment trimmed.
PathKeys(s, sep) == [i \in 1..Len(Split(s, sep)) |-> TrimSpace(Split(s, sep)[i])]

\* A faulty lookup result check that never reports a missing key.
ApplyCaseNoAbort(g) == IF g.status = "panic" THEN "panic" ELSE "set"

\* What Apply does with the result g of Get(cFrom, fromKeys...): the panic of
\* Get propagates, a missing key returns the error, otherwise Set is called.
ApplyCase(g) ==
  IF g.status = "panic" THEN "panic" ELSE IF ~g.ok THEN "KeyNotFound" ELSE "set"

RECURSIVE ApplyRange(_, _, _, _, _, _, _)
\* The range loop of t.Apply(cFrom, cTo, sep) from the i-th pair produced;
\* failed is the index of the pair at which Apply stopped, 0 if none.
ApplyRange(h, t, order, i, cFrom, cTo, sep) ==
  IF i > Len(order)
  THEN [heap |-> h, status |-> "ok", failed |-> 0]
  ELSE LET toKeys == PathKeys(t[order[i]], sep)
           fromKeys == PathKeys(order[i], sep)
           g == Get(h, cFrom, fromKeys)
           r == Set(h, cTo, g.value, toKeys)
       IN IF ApplyCase(g) # "set"
          THEN [heap |-> h, status |-> ApplyCase(g), failed |-> i]
          ELSE IF r.status = "panic"
               THEN [heap |-> r.heap, status |-> "panic", failed |-> i]
               ELSE ApplyRange(r.heap, t, order, i + 1, cFrom, cTo, sep)

\* t.Apply(cFrom, cTo, sep) when the pairs of t are produced in order.
Apply(h, t, order, cFrom, cTo, sep) == ApplyRange(h, t, order, 1, cFrom, cTo, sep)

\* The separator and the path strings of the callers.
Sep == "/"

FromStrs == {<<"a">>, <<"b">>, <<"a", "/", " ", "a">>}

ToStrs == {<<"a">>, <<"b", " ">>, <<"a", "/", "b">>}

\* The source and destination documents of the callers of Apply.
FromEntries == {e \in SrcEntries : e # <<"Config", 0, EmptyMap>>}

FromLiterals == UNION {[ks -> FromEntries] : ks \in SUBSET KeyNames}

ToEntries == {e \in TgtEntries : e[1] \in {"float64", "map", "Config"}}

ToLiterals == UNION {[ks -> ToEntries] : ks \in SUBSET KeyNames}

InitApply ==
  /\ \E s \in FromLiterals, t \in ToLiterals :
       heap = Load(Load(<<EmptyMap, EmptyMap>>, Source, s), Target, t)
  /\ call = NoCall
  /\ nops = 0
  /\ done = {}

Translations ==
  UNION {[ks -> ToStrs] : ks \in {x \in SUBSET FromStrs : x # {} /\ Cardinality(x) <= MaxPairs}}

\* t.Apply(cFrom, cTo, sep), once in a run.
DoApply ==
  /\ nops < MaxOps
  /\ "Apply" \notin done
  /\ \E t \in Translations : \E order \in Orders(DOMAIN t) :
       LET r == Apply(heap, t, order, Source, Target, Sep) IN
       /\ heap' = r.heap
       /\ call' = [op |-> "Apply", root |-> Target, keys |-> <<>>, value |-> Nil,
                   ok |-> TRUE, status |-> r.status, t |-> t, order |-> order,
                   failed |-> r.failed]
  /\ nops' = nops + 1
  /\ done' = done \cup {"Apply"}

\* Set(cTo, value, keys...) with a scalar value, after the Apply.
DoSetAfterApply == "Apply" \in done /\ DoSetScalar(Target)

NextApply == DoApply \/ DoSetAfterApply

SpecApply == InitApply /\ [][NextApply]_vars

\* ------------------------------------------------------------------------
\* Claims on Translation.Apply
\* ------------------------------------------------------------------------

\* The source path and the destination path of the pair with key k.
FromKeys(k) == PathKeys(k, Sep)

ToKeys(t, k) == PathKeys(t[k], Sep)

\* One path is a prefix of the other, or they are equal.
Overlap(p, q) == HasPrefix(p, q) \/ HasPrefix(q, p)

\* The pairs have distinct source paths and distinct destination paths.
DistinctPaths(t) ==
  \A k1, k2 \in DOMAIN t :
    k1 # k2 => FromKeys(k1) # FromKeys(k2) /\ ToKeys(t, k1) # ToKeys(t, k2)

\* No destination path is a prefix of another destination path.
NoDestPrefix(t) ==
  \A k1, k2 \in DOMAIN t : k1 # k2 => ~Overlap(ToKeys(t, k1), ToKeys(t, k2))

\* Every pair succeeds on its own: its source path resolves in the source
\* and the existing intermediate keys of its destination path hold
\* map[string]any.
EveryPairApplies(h, t) ==
  \A k \in DOMAIN t :
    /\ Resolves(h, Source, FromKeys(k))
    /\ IntermediatesAreMaps(h, Target, ToKeys(t, k))

\* The destination is a tree and shares no map object with the source.
Separate(h) == IsTree(h, Target) /\ Reach(h, Source) \cap Reach(h, Target) = {}

\* Every order of the pairs of t ends with the given status and destination.
OrdersAgree(h, t, status, h2) ==
  \A o \in Orders(DOMAIN t) :
    LET r == Apply(h, t, o, Source, Target, Sep) IN
    r.status = status /\ SameTree(r.heap, Target, h2, Target)

\* C9 as stated: with distinct source paths and distinct destination paths,
\* every processing order yields the same destination and error outcome.
C9_OrderIrrelevant ==
  [][(call'.op = "Apply" /\ DistinctPaths(call'.t))
       => OrdersAgree(heap, call'.t, call'.status, heap')]_vars

\* C9 amended: when moreover every pair succeeds on its own, no destination
\* path is a prefix of another and the destination is a tree apart from the
\* source, Apply succeeds and every order yields the same destination.
C9_OrderIrrelevantWhenIndependent ==
  [][(/\ call'.op = "Apply"
      /\ DistinctPaths(call'.t)
      /\ NoDestPrefix(call'.t)
      /\ EveryPairApplies(heap, call'.t)
      /\ Separate(heap))
       => call'.status = "ok" /\ OrdersAgree(heap, call'.t, call'.status, heap')]_vars

\* Two independent pairs have been applied and both values are in place.
C9_Witness ==
  /\ call.op = "Apply"
  /\ call.status = "ok"
  /\ Cardinality(DOMAIN call.t) = 2
  /\ DistinctPaths(call.t)
  /\ NoDestPrefix(call.t)
  /\ \A k \in DOMAIN call.t :
       /\ Resolves(heap, Target, ToKeys(call.t, k))
       /\ SameValue(heap, Get(heap, Target, ToKeys(call.t, k)).value,
                    heap, Get(heap, Source, FromKeys(k)).value)

\* The i-th pair of the order is the first whose source path is absent when
\* it is looked up: the pairs before it have been applied.
AbortsAt(h, t, o, i) ==
  LET b == Apply(h, t, SubSeq(o, 1, i - 1), Source, Target, Sep)
      g == Get(b.heap, Source, FromKeys(o[i]))
  IN b.status = "ok" /\ g.status = "ok" /\ ~g.ok

\* Get(target, p) gives the same result in h2 as in h1.
SameGet(h1, h2, p) ==
  LET g1 == Get(h1, Target, p)
      g2 == Get(h2, Target, p)
  IN /\ g1.status = g2.status
     /\ g1.ok = g2.ok
     /\ g1.ok => SameValue(h1, g1.value, h2, g2.value)

\* The destination path of pair k holds in h2 the value its source path
\* held in h1.
Copied(h1, h2, t, k) ==
  /\ Resolves(h2, Target, ToKeys(t, k))
  /\ SameValue(h2, Get(h2, Target, ToKeys(t, k)).value,
               h1, Get(h1, Source, FromKeys(k)).value)

\* C10 as stated: Apply aborts with KeyNotFound at the first pair whose
\* source path is absent; the destination paths of that pair and of the
\* pairs not yet processed are unmodified, the values copied by the earlier
\* pairs remain.
C10_AbortKeepsLaterPaths ==
  [][call'.op = "Apply"
       => \A i \in 1..Len(call'.order) :
            AbortsAt(heap, call'.t, call'.order, i)
              => /\ call'.status = "KeyNotFound"
                 /\ call'.failed = i
                 /\ \A j \in i..Len(call'.order) :
                      SameGet(heap, heap', ToKeys(call'.t, call'.order[j]))
                 /\ \A j \in 1..(i - 1) :
                      Copied(heap, heap', call'.t, call'.order[j])]_vars

\* The destination paths of the pairs before the i-th do not overlap.
EarlierApart(t, o, i) ==
  \A k, l \in 1..(i - 1) : k # l => ~Overlap(ToKeys(t, o[k]), ToKeys(t, o[l]))

\* No pair before the i-th has a destination path overlapping that of pair j.
NotWrittenEarlier(t, o, i, j) ==
  \A k \in 1..(i - 1) : ~Overlap(ToKeys(t, o[k]), ToKeys(t, o[j]))

\* C10 amended: as C10, for a destination apart from the source and earlier
\* pairs whose destination paths do not overlap; a destination path of the
\* failing or a later pair is unmodified unless an earlier pair's
\* destination path overlaps it.
C10_AbortKeepsUnwrittenPaths ==
  [][(call'.op = "Apply" /\ Separate(heap))
       => \A i \in 1..Len(call'.order) :
            AbortsAt(heap, call'.t, call'.order, i)
              => /\ call'.status = "KeyNotFound"
                 /\ call'.failed = i
                 /\ EarlierApart(call'.t, call'.order, i)
                      => /\ \A j \in i..Len(call'.order) :
                              NotWrittenEarlier(call'.t, call'.order, i, j)
                                => SameGet(heap, heap', ToKeys(call'.t, call'.order[j]))
                         /\ \A j \in 1..(i - 1) :
                              Copied(heap, heap', call'.t, call'.order[j])]_vars

\* An Apply has aborted at its second pair: the value copied by the first
\* pair is in the destination.
C10_Witness ==
  /\ call.op = "Apply"
  /\ call.status = "KeyNotFound"
  /\ call.failed = 2
  /\ ~Resolves(heap, Source, FromKeys(call.order[2]))
  /\ Copied(heap, heap, call.t, call.order[1])
  /\ ~Overlap(ToKeys(call.t, call.order[1]), ToKeys(call.t, call.order[2]))

\* ------------------------------------------------------------------------
\* CompareTypes
\* ------------------------------------------------------------------------

\* fmt's %s of reflect.TypeOf(v), as one token of the report.
TypeName(v) ==
  CASE v[1] = "nil" -> "%!s(<nil>)"
    [] v[1] = "slice" -> "[]interface {}"
    [] v[1] = "map" -> "map[string]interface {}"
    [] v[1] = "Config" -> "config.Config"
    [] OTHER -> v[1]

\* reflect.ValueOf(v).Kind() == reflect.Map
KindIsMap(v) == v[1] \in {"map", "Config"}

\* strings.Join([]string{prefix, key}, ":")
Join(prefix, key) == prefix \o <<":">> \o key

RECURSIVE TrimLeft(_, _)
\* strings.TrimLeft(s, cutset) for a cutset of one character.
TrimLeft(s, cut) == IF s # <<>> /\ s[1] = cut THEN TrimLeft(Tail(s), cut) ELSE s

\* pfx: the joined prefix and key without leading colons.
Pfx(prefix, key) == TrimLeft(Join(prefix, key), ":")

\* fmt.Sprintf("%s:%s!=%s", pfx, type1, type2)
Mismatch(pfx, value1, value2) ==
  pfx \o <<":", TypeName(value1), "!", "=", TypeName(value2)>>

\* A faulty comparison of the values themselves instead of their types.
CompareCaseByValue(h, c, refCfg, key) ==
  IF ~HasKey(h[refCfg], key)
  THEN "notFound"
  ELSE IF h[c][key] = h[refCfg][key]
       THEN IF KindIsMap(h[c][key])
            THEN IF h[c][key][1] = "Config" THEN "recurse" ELSE "panic"
            ELSE "same"
       ELSE "mismatch"

\* What the body of CompareTypes' loop does for key of c: "notFound" appends
\* to notFound, "mismatch" appends to mismatches, "same" does nothing,
\* "recurse" descends into both values, "panic" is the failed value1.(Config).
CompareCase(h, c, refCfg, key) ==
  IF ~HasKey(h[refCfg], key)
  THEN "notFound"
  ELSE IF h[c][key][1] = h[refCfg][key][1]
       THEN IF KindIsMap(h[c][key])
            THEN IF h[c][key][1] = "Config" THEN "recurse" ELSE "panic"
            ELSE "same"
       ELSE "mismatch"

RECURSIVE CompareRange(_, _, _, _, _, _)
\* The outcomes of the range loop of c.CompareTypes(refCfg, prefix, ...)
\* after the keys in visited, out holding the two slices so far: the keys
\* are produced in any order.
CompareRange(h, c, refCfg, prefix, visited, out) ==
  LET todo == (DOMAIN h[c]) \ visited IN
  IF todo = {}
  THEN {out}
  ELSE UNION {
    LET pfx == Pfx(prefix, key)
        value1 == h[c][key]
        value2 == h[refCfg][key]
        case == CompareCase(h, c, refCfg, key)
    IN CASE case = "notFound" ->
              CompareRange(h, c, refCfg, prefix, visited \cup {key},
                           [out EXCEPT !.notFound = Append(@, pfx)])
         [] case = "mismatch" ->
              CompareRange(h, c, refCfg, prefix, visited \cup {key},
                           [out EXCEPT !.mismatches = Append(@, Mismatch(pfx, value1, value2))])
         [] case = "recurse" ->
              UNION {IF r.status = "ok"
                     THEN CompareRange(h, c, refCfg, prefix, visited \cup {key}, r)
                     ELSE {r} :
                     r \in CompareRange(h, value1[2], value2[2], pfx, {}, out)}
         [] case = "panic" -> {[out EXCEPT !.status = "panic"]}
         [] OTHER -> CompareRange(h, c, refCfg, prefix, visited \cup {key}, out) :
    key \in todo}

\* c.CompareTypes(refCfg, "", &mismatches, &notFound) with both slices empty:
\* every outcome the iteration order allows.
CompareTypes(h, c, refCfg) ==
  CompareRange(h, c, refCfg, <<>>, {}, [mismatches |-> <<>>, notFound |-> <<>>, status |-> "ok"])

\* The subject and the reference of CompareTypes.
Cfg == 1

RefCfg == 2

\* A key that begins with the separator of the reported paths.
KColon == <<":", "a">>

CmpKeys == {KA, KColon}

\* An int, as a number written without a fraction in a Go literal.
LitInt == <<"int", 1>>

\* The entries of the subject: numbers, null and nested documents, those of
\* type map[string]any as json.Unmarshal and Set make them.
CfgEntries ==
  {<<s[1], s[2], EmptyMap>> : s \in {LitNumber, LitInt, Nil}}
    \cup {<<"map", 0, KA :> LitNumber>>, <<"Config", 0, EmptyMap>>, <<"Config", 0, KA :> LitNumber>>}

CfgLiterals == UNION {[ks -> CfgEntries] : ks \in SUBSET CmpKeys}

\* The reference holds another number than the subject.
RefNumber == <<"float64", 2>>

RefEntries ==
  {<<s[1], s[2], EmptyMap>> : s \in {RefNumber, Nil}}
    \cup {<<"map", 0, EmptyMap>>, <<"Config", 0, EmptyMap>>, <<"Config", 0, KA :> LitInt>>}

RefLiterals == UNION {[ks -> RefEntries] : ks \in SUBSET CmpKeys}

InitCompare ==
  /\ \E s \in CfgLiterals, r \in RefLiterals :
       heap = Load(Load(<<EmptyMap, EmptyMap>>, Cfg, s), RefCfg, r)
  /\ call = NoCall
  /\ nops = 0
  /\ done = {}

\* Config(cfg).CompareTypes(Config(ref), "", &mismatches, &notFound)
DoCompareTypes ==
  /\ nops < MaxOps
  /\ \E r \in CompareTypes(heap, Cfg, RefCfg) :
       call' = [op |-> "CompareTypes", root |-> Cfg, keys |-> <<>>, value |-> Nil,
                ok |-> TRUE, status |-> r.status,
                mismatches |-> r.mismatches, notFound |-> r.notFound]
  /\ nops' = nops + 1
  /\ UNCHANGED <<heap, done>>

NextCompare == DoCompareTypes \/ DoSetScalar(Cfg)

SpecCompare == InitCompare /\ [][NextCompare]_vars

\* ------------------------------------------------------------------------
\* Claims on CompareTypes
\* ------------------------------------------------------------------------

\* C11: CompareTypes completes without failing on every pair of documents,
\* also when a key holds a nested Document in both.
C11_CompareTypesTotal == call.op = "CompareTypes" => call.status = "ok"

\* The variant tag of a value in the spec's value model.
Tag(v) ==
  CASE v[1] \in {"int", "float64"} -> "Number"
    [] v[1] \in {"map", "Config"} -> "Document"
    [] v[1] = "slice" -> "Array"
    [] v[1] = "nil" -> "Null"
    [] v[1] = "bool" -> "Bool"
    [] OTHER -> "String"

RECURSIVE Positions(_, _, _, _)
\* The keys both documents hold, at the top and beneath keys that hold
\* Documents in both: each as <<reported path, subject value, reference value>>.
Positions(h, c, refCfg, prefix) ==
  LET both == (DOMAIN h[c]) \cap (DOMAIN h[refCfg]) IN
  {<<Pfx(prefix, k), h[c][k], h[refCfg][k]>> : k \in both}
    \cup UNION {Positions(h, h[c][k][2], h[refCfg][k][2], Pfx(prefix, k)) :
                 k \in {x \in both : IsDocument(h[c][x]) /\ IsDocument(h[refCfg][x])}}

\* The elements of a slice.
Elements(s) == {s[i] : i \in 1..Len(s)}

DottedPath(prefix, key) == IF prefix = <<>> THEN key ELSE prefix \o <<":">> \o key

RECURSIVE AbsentPaths(_, _, _, _)
\* The dotted paths of the subject's keys that are absent from the reference
\* at the same position and reached only through keys that hold Documents in
\* both.
AbsentPaths(h, c, refCfg, prefix) ==
  {DottedPath(prefix, k) : k \in (DOMAIN h[c]) \ (DOMAIN h[refCfg])}
    \cup UNION {AbsentPaths(h, h[c][k][2], h[refCfg][k][2], DottedPath(prefix, k)) :
                 k \in {x \in (DOMAIN h[c]) \cap (DOMAIN h[refCfg]) :
                          IsDocument(h[c][x]) /\ IsDocument(h[refCfg][x])}}

\* C14: notFound holds exactly the dotted paths of the subject's keys that
\* are absent from the reference and reached only through Documents in both:
\* nothing beneath a not-found or mismatched key, and no key of the reference
\* alone.
C14_NotFoundExact ==
  call.op = "CompareTypes" =>
    Elements(call.notFound) = AbsentPaths(heap, Cfg, RefCfg, <<>>)

\* ------------------------------------------------------------------------
\* ConfigFromString
\* ------------------------------------------------------------------------

\* strings.HasSuffix(s, suffix)
HasSuffix(s, suffix) ==
  Len(suffix) <= Len(s) /\ SubSeq(s, Len(s) - Len(suffix) + 1, Len(s)) = suffix

\* The character of s at i, "" past its end.
At(s, i) == IF i <= Len(s) THEN s[i] ELSE ""

\* The digits of the numbers in the texts.
Digits == {"1", "2"}

DigitValue(ch) == IF ch = "1" THEN 1 ELSE 2

RECURSIVE SkipSpace(_, _)
\* The decoder skips the white space from i on.
SkipSpace(s, i) == IF IsSpace(At(s, i)) THEN SkipSpace(s, i + 1) ELSE i

RECURSIVE ScanString(_, _)
\* The index of the quote that closes the string whose characters begin at
\* i, 0 when the text ends first.
ScanString(s, i) ==
  IF i > Len(s) THEN 0 ELSE IF s[i] = "\"" THEN i ELSE ScanString(s, i + 1)

RECURSIVE ScanNumber(_, _, _)
\* The number whose digits begin at i, n being the value of those before i.
ScanNumber(s, i, n) ==
  IF At(s, i) \in Digits
  THEN ScanNumber(s, i + 1, 10 * n + DigitValue(s[i]))
  ELSE [next |-> i, n |-> n]

ParseFailed(h) == [ok |-> FALSE, next |-> 0, value |-> Nil, heap |-> h]

RECURSIVE ParseValue(_, _, _)
RECURSIVE ParseMembers(_, _, _, _)

\* json.Unmarshal decodes the object whose brace is at i into the map object
\* at addr.
ParseObject(h, addr, s, i) ==
  LET j == SkipSpace(s, i + 1) IN
  IF At(s, j) = "}"
  THEN [ok |-> TRUE, next |-> j + 1, value |-> <<"map", addr>>, heap |-> h]
  ELSE ParseMembers(h, addr, s, j)

\* The members of an object from i on: "key" : value, then a comma and
\* further members, or the closing brace.
ParseMembers(h, addr, s, i) ==
  LET q == ScanString(s, i + 1)
      key == SubSeq(s, i + 1, q - 1)
      colon == SkipSpace(s, q + 1)
      v == ParseValue(h, s, SkipSpace(s, colon + 1))
      after == SkipSpace(s, v.next)
      h1 == [v.heap EXCEPT ![addr] = MapAssign(@, key, v.value)]
  IN IF At(s, i) # "\"" \/ q = 0 \/ At(s, colon) # ":"
     THEN ParseFailed(h)
     ELSE IF ~v.ok
          THEN ParseFailed(h)
          ELSE IF At(s, after) = "}"
               THEN [ok |-> TRUE, next |-> after + 1, value |-> <<"map", addr>>, heap |-> h1]
               ELSE IF At(s, after) = ","
                    THEN ParseMembers(h1, addr, s, SkipSpace(s, after + 1))
                    ELSE ParseFailed(h)

\* The JSON value that begins at i: an object (a new map[string]any), a
\* string or a number (a float64).
ParseValue(h, s, i) ==
  IF At(s, i) = "{"
  THEN ParseObject(Append(h, EmptyMap), Len(h) + 1, s, i)
  ELSE IF At(s, i) = "\""
       THEN LET q == ScanString(s, i + 1) IN
            IF q = 0
            THEN ParseFailed(h)
            ELSE [ok |-> TRUE, next |-> q + 1, value |-> <<"string", SubSeq(s, i + 1, q - 1)>>, heap |-> h]
       ELSE IF At(s, i) \in Digits
            THEN LET n == ScanNumber(s, i, 0) IN
                 [ok |-> TRUE, next |-> n.next, value |-> <<"float64", n.n>>, heap |-> h]
            ELSE ParseFailed(h)

\* json.Unmarshal([]byte(s), &c) for the map c at addr: an error unless s is
\* one JSON object, white space around it allowed; on an error c is as it was.
Unmarshal(h, s, addr) ==
  LET i == SkipSpace(s, 1)
      r == ParseObject(h, addr, s, i)
  IN IF At(s, i) = "{" /\ r.ok /\ SkipSpace(s, r.next) > Len(s)
     THEN [err |-> FALSE, heap |-> r.heap]
     ELSE [err |-> TRUE, heap |-> h]

\* The text ConfigFromString hands to json.Unmarshal: an opening brace is
\* put before a trimmed text that does not begin with one, a closing brace
\* after one that does not end with one.
WithBraces(s) ==
  LET s1 == IF HasPrefix(s, <<"{">>) THEN s ELSE <<"{">> \o s IN
  IF HasSuffix(s1, <<"}">>) THEN s1 ELSE s1 \o <<"}">>

\* ConfigFromString(s): c is the map returned, 0 for nil.
ConfigFromString(h, s) ==
  LET h1 == Append(h, EmptyMap)
      r == Unmarshal(h1, WithBraces(TrimSpace(s)), Len(h1))
  IN IF r.err
     THEN [c |-> 0, err |-> TRUE, heap |-> h]
     ELSE [c |-> Len(h1), err |-> FALSE, heap |-> r.heap]

\* The members one object body of the callers holds at most.
MaxMembers == 2

\* The values and the members of the texts.
TextValues ==
  {<<"1">>, <<"1", "2">>, <<"\"", "b", "\"">>, <<"{", "}">>,
   <<"{", "\"", "a", "\"", ":", "1", "}">>}

TextMembers ==
  {<<"\"", "a", "\"", ":">> \o v : v \in TextValues}
    \cup {<<"\"", "b", "\"", " ", ":", " ">> \o v : v \in TextValues}

RECURSIVE Bodies(_)
\* The object bodies of at most n members.
Bodies(n) ==
  IF n = 0
  THEN {<<>>}
  ELSE Bodies(n - 1)
         \cup {IF b = <<>> THEN m ELSE b \o <<",">> \o m : b \in Bodies(n - 1), m \in TextMembers}

\* The texts passed to ConfigFromString: a body bare, in braces, in white
\* space, or with one brace only.
Texts ==
  UNION {{b, <<"{">> \o b \o <<"}">>, <<" ">> \o b \o <<" ">>,
          <<" ", "{", " ">> \o b \o <<" ", "}", " ">>,
          <<"{">> \o b, b \o <<"}">>, b \o <<",">>} : b \in Bodies(MaxMembers)}

InitParse ==
  /\ heap = <<>>
  /\ call = NoCall
  /\ nops = 0
  /\ done = {}

\* ConfigFromString(s), once in a run.
DoConfigFromString ==
  /\ nops < MaxOps
  /\ "ConfigFromString" \notin done
  /\ \E s \in Texts :
       LET r == ConfigFromString(heap, s) IN
       /\ heap' = r.heap
       /\ call' = [op |-> "ConfigFromString", root |-> r.c, keys |-> <<>>, value |-> Nil,
                   ok |-> ~r.err, status |-> "ok", text |-> s]
  /\ nops' = nops + 1
  /\ done' = done \cup {"ConfigFromString"}

NextParse == DoConfigFromString

SpecParse == InitParse /\ [][NextParse]_vars

\* The text in braces.
InBraces(b) == <<"{">> \o b \o <<"}">>

\* C13: for every text B such that {B} is a valid JSON object,
\* ConfigFromString(B) succeeds and returns the Document that
\* ConfigFromString of {B} returns; an empty or all-white-space text yields
\* an empty Document.
C13_BareBodyAccepted ==
  [][call'.op = "ConfigFromString"
       => LET whole == ConfigFromString(heap, InBraces(call'.text)) IN
          /\ ~whole.err
               => /\ call'.ok
                  /\ SameTree(heap', call'.root, whole.heap, whole.c)
          /\ TrimSpace(call'.text) = <<>>
               => call'.ok /\ heap'[call'.root] = EmptyMap]_vars

\* ------------------------------------------------------------------------
\* The frame of Set
\* ------------------------------------------------------------------------

\* The paths of at most three keys.
PathsTo3 == Paths \cup {<<k1, k2, k3>> : k1 \in KeyNames, k2 \in KeyNames, k3 \in KeyNames}

\* C15: after Set(doc, p, v) on a path whose existing intermediate values are
\* Documents, every intermediate key of p that was missing holds a newly
\* created Document, and every path that resolved before the call and is
\* neither a prefix of p nor an extension of p resolves to the same value.
C15_SetChangesOnlyItsPath ==
  [][(call'.op = "Set" /\ ~NonDocumentIntermediate(heap, call'.root, call'.keys))
       => /\ \A q \in Prefixes(call'.keys) :
               ~Resolve(heap, call'.root, q, 1).found
                 => /\ Resolve(heap', call'.root, q, 1).found
                    /\ IsDocument(Resolve(heap', call'.root, q, 1).value)
                    /\ Resolve(heap', call'.root, q, 1).value[2] > Len(heap)
          /\ \A q \in PathsTo3 :
               (/\ Resolve(heap, call'.root, q, 1).found
                /\ ~HasPrefix(call'.keys, q)
                /\ ~HasPrefix(q, call'.keys))
                 => /\ Resolve(heap', call'.root, q, 1).found
                    /\ SameValue(heap', Resolve(heap', call'.root, q, 1).value,
                                 heap, Resolve(heap, call'.root, q, 1).value)]_vars

\* ------------------------------------------------------------------------
\* The source of Apply
\* ------------------------------------------------------------------------

\* C16: Apply never mutates the source document and shares nothing with it:
\* the source after Apply, and after any later Set on the destination,
\* equals the source before.
C16_ApplyKeepsSource ==
  [][("Apply" \in done \/ call'.op = "Apply")
       => SameTree(heap', Source, heap, Source)]_vars

====
